---- MODULE Spec2Model ----
(***************************************************************************)
(* A model of the d3 chart helpers plotHistogram, plotSunburst and         *)
(* plotSankey acting on one container of a page.                           *)
(*                                                                         *)
(* Numbers that are fractions in the program are kept exact: a fraction is *)
(* a record [num, den] with den > 0, opacities are in percent (30, 100),   *)
(* times are in milliseconds.                                              *)
(***************************************************************************)
EXTENDS Integers, Sequences, FiniteSets, TLC

\* ------------------------------------------------------------------ bounds
MaxNodes == 4
MaxBins == 3
FrameMs == 250
MaxDragEvents == 4

\* ------------------------------------------------------- program constants
\* plot-d3-sunburst.js:225, the length of the fade back to full opacity
duration == 500
\* plot-d3-sunburst.js:58, the number of colours of d3.schemeCategory20c
schemeCategory20c == 20
\* plot-d3-sunburst.js:91, 2 * Math.PI as the fraction TwoPiNum / TwoPiDen
TwoPiNum == 710
TwoPiDen == 113
\* plot-d3-sunburst.js:206 and :211, the two opacities in percent
Faded == 30
Full == 100
\* part_000:155, the histogram's default left and right margins
marginLeft == 50
marginRight == 20
\* part_000:234, bars wider than this show their value
barTextMinWidth == 20

\* ----------------------------------------------------------- arithmetic
Abs(x) == IF x < 0 THEN -x ELSE x

RECURSIVE Gcd(_, _)
Gcd(a, b) == IF b = 0 THEN Abs(a) ELSE Gcd(b, a % b)

\* the fraction n / d in lowest terms, d > 0
Frac(n, d) == LET g == Gcd(Abs(n), d) IN [num |-> n \div g, den |-> d \div g]

RECURSIVE Pow10(_)
Pow10(k) == IF k = 0 THEN 1 ELSE 10 * Pow10(k - 1)

RECURSIVE SumOver(_, _)
SumOver(f, S) ==
  IF S = {} THEN 0
  ELSE LET x == CHOOSE y \in S : TRUE IN f[x] + SumOver(f, S \ {x})

RECURSIVE Concat(_)
Concat(ss) == IF ss = <<>> THEN <<>> ELSE Head(ss) \o Concat(Tail(ss))

IndexOf(s, x) ==
  IF \E i \in 1..Len(s) : s[i] = x
  THEN (CHOOSE i \in 1..Len(s) : s[i] = x /\ \A j \in 1..(i - 1) : s[j] # x) - 1
  ELSE -1

SelectSeqBy(s, keep) ==
  LET F[i \in 0..Len(s)] ==
        IF i = 0 THEN <<>>
        ELSE IF s[i] \in keep THEN Append(F[i - 1], s[i]) ELSE F[i - 1]
  IN F[Len(s)]

Range(s) == {s[i] : i \in 1..Len(s)}

\* ------------------------------------------------------- input data (trees)
\* A tree: node 1 is the root, parent[i] < i, the children of a node are in
\* the order of their numbers (the order of the data's children arrays).
\* The input trees hang every node on the root or on the node before it.
Shapes(n) ==
  {p \in [1..n -> 0..(n - 1)] : p[1] = 0 /\ \A i \in 2..n : p[i] \in {1, i - 1}}

\* the names and the sizes of the nodes 1, 2, ... of the input trees
Schemes ==
  << [name |-> <<"root", "A", "B", "C", "D">>, size |-> <<0, 3, 5, 2, 1>>],
     [name |-> <<"root", "A", "A", "B", "A">>, size |-> <<0, 2, 1999, 1, 3>>],
     [name |-> <<"X", "A", "X", "B", "A">>, size |-> <<1, 1, 1, 1, 1>>],
     [name |-> <<"root", "A", "B", "A", "C">>, size |-> <<0, 4, 0, 4, 2>>] >>

Cyclic(s, i) == s[((i - 1) % Len(s)) + 1]

MakeTree(p, k) ==
  [parent |-> p,
   name |-> [i \in DOMAIN p |-> Cyclic(Schemes[k].name, i)],
   size |-> [i \in DOMAIN p |-> Cyclic(Schemes[k].size, i)]]

Trees ==
  {MakeTree(p, k) : p \in UNION {Shapes(n) : n \in 2..MaxNodes}, k \in DOMAIN Schemes}

\* the tree of the documentation's example: root{A:3, B:5{C:2}}
ExampleTree ==
  [parent |-> <<0, 1, 1, 3>>, name |-> <<"root", "A", "B", "C">>,
   size |-> <<0, 3, 5, 2>>]

NoTree == [parent |-> <<>>, name |-> <<>>, size |-> <<>>]

\* config.cutoff: the default and a user-given one
DefaultCutoff == Frac(5, 1000)
Cutoffs == {DefaultCutoff, Frac(1, 4)}

\* ------------------------------------------------------------ d3.hierarchy
TreeNodes(t) == DOMAIN t.parent

children(t, i) == {j \in TreeNodes(t) : t.parent[j] = i}

\* node.sum(function (d) {return d.size;}): own size plus the children's sums
RECURSIVE sum(_, _)
sum(t, i) == t.size[i] + SumOver([j \in children(t, i) |-> sum(t, j)], children(t, i))

\* node.sort(function(a, b) { return b.value - a.value; }): the children of i
\* by descending value, equal values keeping the data's order
sort(t, i) ==
  LET ch == children(t, i)
      Before(a, b) == sum(t, a) > sum(t, b) \/ (sum(t, a) = sum(t, b) /\ a < b)
  IN [k \in 1..Cardinality(ch) |->
        CHOOSE c \in ch : Cardinality({d \in ch : Before(d, c)}) = k - 1]

RECURSIVE depth(_, _)
depth(t, i) == IF t.parent[i] = 0 THEN 0 ELSE 1 + depth(t, t.parent[i])

\* node.ancestors(): the node first, the root last
RECURSIVE ancestors(_, _)
ancestors(t, i) ==
  IF t.parent[i] = 0 THEN <<i>> ELSE <<i>> \o ancestors(t, t.parent[i])

Reverse(s) == [k \in 1..Len(s) |-> s[Len(s) + 1 - k]]

\* node.descendants(): breadth-first, every node's children in sorted order
RECURSIVE Levels(_, _)
Levels(t, level) ==
  IF level = <<>> THEN <<>>
  ELSE level \o Levels(t, Concat([k \in 1..Len(level) |-> sort(t, level[k])]))

descendants(t) == Levels(t, <<1>>)

\* d3.partition().size([2 * Math.PI, ...]): the angular span x1 - x0 of a node,
\* the root's span times value / root value
partition(t, i) == Frac(TwoPiNum * sum(t, i), TwoPiDen * sum(t, 1))

FracGreater(a, b) == a.num * b.den > b.num * a.den

\* .filter(function(d) { return (d.x1 - d.x0 > config.cutoff); })
filter(t, cutoff) ==
  SelectSeqBy(descendants(t), {i \in TreeNodes(t) : FracGreater(partition(t, i), cutoff)})

\* the names of the rendered nodes, each once, in order of first occurrence
uniqueNamesOf(t, ns) ==
  LET F[k \in 0..Len(ns)] ==
        IF k = 0 THEN <<>>
        ELSE IF IndexOf(F[k - 1], t.name[ns[k]]) = -1
             THEN Append(F[k - 1], t.name[ns[k]]) ELSE F[k - 1]
  IN F[Len(ns)]

\* config.color(name) once the scale's domain is the unique names: the index
\* of the colour in the scheme
color(domain, name) == IndexOf(domain, name) % schemeCategory20c

\* ------------------------------------------------------ number formatting
\* the decimal exponent e of n / d > 0: 10^e <= n / d < 10^(e + 1)
RECURSIVE Exponent(_, _)
Exponent(n, d) ==
  IF n >= 10 * d THEN 1 + Exponent(n, 10 * d)
  ELSE IF n < d THEN Exponent(10 * n, d) - 1
  ELSE 0

\* n / d rounded to the nearest integer, a half rounded up
RoundHalfUp(n, d) == (2 * n + d) \div (2 * d)

\* Number.prototype.toPrecision(3) of n / d >= 0: the three digits m
\* (100..999, or 0 for zero) and the exponent e of the first digit
toPrecision3(n, d) ==
  IF n = 0 THEN [m |-> 0, e |-> 0]
  ELSE LET e == Exponent(n, d)
           m == IF e <= 2 THEN RoundHalfUp(n * Pow10(2 - e), d)
                ELSE RoundHalfUp(n, d * Pow10(e - 2))
       IN IF m = 1000 THEN [m |-> 100, e |-> e + 1] ELSE [m |-> m, e |-> e]

RECURSIVE Zeros(_)
Zeros(k) == IF k <= 0 THEN "" ELSE "0" \o Zeros(k - 1)

\* the string toPrecision(3) returns for the digits m and the exponent e
PrecisionString(p) ==
  LET d1 == ToString(p.m \div 100)
      d2 == ToString((p.m \div 10) % 10)
      d3 == ToString(p.m % 10)
  IN IF p.m = 0 THEN "0.00"
     ELSE IF p.e >= 3 THEN d1 \o "." \o d2 \o d3 \o "e+" \o ToString(p.e)
     ELSE IF p.e = 2 THEN d1 \o d2 \o d3
     ELSE IF p.e = 1 THEN d1 \o d2 \o "." \o d3
     ELSE IF p.e = 0 THEN d1 \o "." \o d2 \o d3
     ELSE IF p.e >= -6 THEN "0." \o Zeros(-p.e - 1) \o d1 \o d2 \o d3
     ELSE d1 \o "." \o d2 \o d3 \o "e-" \o ToString(-p.e)

\* percentage < 0.1, the string being converted back to the number it shows
BelowTenth(p) == p.m = 0 \/ p.e < -1

\* a percentage string that compares the percentage itself with 0.1
percentageStringExact(value, total) ==
  IF 1000 * value < total THEN "< 0.1%"
  ELSE PrecisionString(toPrecision3(100 * value, total)) \o "%"

\* mouseover's percentageString for d.value = value and totalSize = total
percentageString(value, total) ==
  LET percentage == toPrecision3(100 * value, total)
  IN IF BelowTenth(percentage) THEN "< 0.1%"
     ELSE PrecisionString(percentage) \o "%"

\* d3.format(",") of a natural number: groups of three digits
RECURSIVE formatComma(_)
formatComma(n) ==
  IF n < 1000 THEN ToString(n)
  ELSE LET r == n % 1000
       IN formatComma(n \div 1000) \o "," \o
          (IF r < 10 THEN "00" ELSE IF r < 100 THEN "0" ELSE "") \o ToString(r)

countsString(value, total) == formatComma(value) \o "/" \o formatComma(total)

\* ------------------------------------------------------------------ state
VARIABLES
  \* what the page's script passes to the render calls
  page,          \* [charts, tree, cutoff, bins, bar_spacing, onclick, width, layout,
                 \*  second, tree2]
  \* the container
  svgs,          \* its svg children in document order: [kind, el]
  onmouseleave,  \* whether a sunburst's mouseleave is bound to the container
  \* the global variable totalSize (0: not assigned yet)
  totalSize,
  \* the sunburst chart in the container
  data,          \* the tree it was rendered from (NoTree: none)
  cutoff,        \* config.cutoff
  nodes,         \* the rendered nodes, in order
  path,          \* node -> [display, fill, opacity, onmouseover]
  legend,        \* the legend entries in order: [text, fill]
  trail,         \* #trail: [visibility, g: breadcrumbs, endlabel]
  percentage,    \* #percentage: [text, visibility]
  counts,        \* #counts: [text, visibility]
  transition,    \* the fade of the paths: [active, elapsed, from]
  hovered,       \* the node of the last processed hover (0: none)
  \* the path elements of the chart in the page's second container, which
  \* comes after the first in the document
  other,         \* [kind, data, nodes, path: [display, opacity, handler, from]]
  \* the histogram in the container
  bars,          \* the bars in order: [x, width, value]
  barsOnClick,   \* whether a click handler is bound to the bars
  onclick,       \* config.onclick: "function" or "undefined"
  called,        \* the arguments of the callback's last call (<<>>: none)
  error,         \* the uncaught error of the last event ("": none)
  \* the sankey diagram in the container
  graph,         \* [nodes: n -> box and start, links: l -> ends, width, y0, y1]
  linkPath,      \* link -> the drawn path: [x0, y0, x1, y1]
  nodeTransform, \* node -> the translate of its group: [x, y]
  nodeOrder,     \* the node groups in document order
  drag,          \* the gesture under way: [node, x, y] (node 0: none)
  dragSteps,     \* the number of start and drag events so far
  \* the last event processed
  last

containerVars == <<page, svgs, onmouseleave>>
sunburstVars ==
  <<data, cutoff, nodes, path, legend, trail, percentage, counts, transition, hovered>>
histogramVars == <<bars, barsOnClick, onclick, called>>
sankeyVars == <<graph, linkPath, nodeTransform, nodeOrder, drag, dragSteps>>
vars ==
  <<containerVars, totalSize, sunburstVars, other, histogramVars, error, sankeyVars, last>>

\* ------------------------------------------------------------ empty charts
NoTrail == [visibility |-> "", g |-> {}, endlabel |-> [slot |-> 0, text |-> ""]]
NoText == [text |-> "", visibility |-> ""]
NoTransition == [active |-> FALSE, elapsed |-> 0, from |-> <<>>]
NoGraph == [nodes |-> <<>>, links |-> <<>>]
NoDrag == [node |-> 0, x |-> 0, y |-> 0]
NoOther == [kind |-> "", data |-> NoTree, nodes |-> <<>>, path |-> <<>>]

NoSunburst ==
  /\ data' = NoTree /\ cutoff' = DefaultCutoff /\ nodes' = <<>> /\ path' = <<>>
  /\ legend' = <<>> /\ trail' = NoTrail /\ percentage' = NoText /\ counts' = NoText
  /\ transition' = NoTransition /\ hovered' = 0

NoHistogram ==
  /\ bars' = <<>> /\ barsOnClick' = FALSE /\ onclick' = "undefined" /\ called' = <<>>

NoSankey ==
  /\ graph' = NoGraph /\ linkPath' = <<>> /\ nodeTransform' = <<>>
  /\ nodeOrder' = <<>> /\ drag' = NoDrag /\ dragSteps' = 0

\* a container from which no svg is removed
removeNothing(s) == s

\* ------------------------------------------------------------ the container
\* container.select("svg").remove(): the first svg of the container goes
removeSvg(s) == IF s = <<>> THEN <<>> ELSE Tail(s)

\* the number of a new svg element: the smallest none of the svgs carries
newSvg(s) == CHOOSE n \in 0..Len(s) : \A k \in 1..Len(s) : s[k].el # n

\* container.select("svg").remove(); ... container.append("svg")
replaceSvg(s, kind) == Append(removeSvg(s), [kind |-> kind, el |-> newSvg(s)])

\* ------------------------------------------------------------- plotSunburst
\* the paths drawn for the rendered nodes ns of tree t
drawPaths(t, ns) ==
  LET uniqueNames == uniqueNamesOf(t, ns)
  IN [i \in Range(ns) |->
        [display |-> IF depth(t, i) # 0 THEN "" ELSE "none",
         fill |-> color(uniqueNames, t.name[i]),
         opacity |-> Full,
         onmouseover |-> TRUE]]

\* the legend entries: uniqueNames.slice(1, uniqueNames.length)
legendEntries(t, ns) ==
  LET uniqueNames == uniqueNamesOf(t, ns)
      shown == SubSeq(uniqueNames, 2, Len(uniqueNames))
  IN [k \in 1..Len(shown) |-> [text |-> shown[k], fill |-> color(uniqueNames, shown[k])]]

\* whether a path of the second container is in the transition under way
Fading(q) == \E i \in DOMAIN q : q[i].from >= 0

\* the transition once the first container's paths are removed from the
\* document: it goes on for the paths of the second container that are in it
leaveTransition(tr, q) == IF Fading(q) THEN [tr EXCEPT !.from = <<>>] ELSE NoTransition

plotSunburst(t, c) ==
  LET ns == filter(t, c) IN
  /\ ns # <<>>
  /\ svgs' = replaceSvg(svgs, "sunburst")
  /\ onmouseleave' = TRUE
  /\ data' = t /\ cutoff' = c /\ nodes' = ns
  /\ path' = drawPaths(t, ns)
  /\ totalSize' = sum(t, ns[1])
  /\ legend' = legendEntries(t, ns)
  /\ trail' = NoTrail /\ percentage' = NoText /\ counts' = NoText
  /\ transition' = leaveTransition(transition, other.path) /\ hovered' = 0
  /\ NoHistogram /\ NoSankey
  /\ error' = ""
  /\ last' = [op |-> "plotSunburst", svg |-> newSvg(svgs)]
  /\ UNCHANGED <<page, other>>

\* the data join's key: d.data.name + d.depth
key(t, i) == t.name[i] \o ToString(depth(t, i))

\* the r-th smallest element number no breadcrumb of the trail carries
freshElement(used, r) ==
  CHOOSE n \in 0..(Cardinality(used) + r) :
    n \notin used /\ Cardinality({m \in 0..(n - 1) : m \notin used}) = r - 1

\* a join without keys: every breadcrumb goes and one is made for each node
joinRecreate(old, t, domain, nodeArray) ==
  {[key |-> key(t, nodeArray[k]), el |-> freshElement({g.el : g \in old}, k),
    text |-> t.name[nodeArray[k]],
    fill |-> color(domain, t.name[nodeArray[k]]),
    points |-> IF k - 1 > 0 THEN 6 ELSE 5,
    slot |-> k - 1, datum |-> nodeArray[k]] : k \in 1..Len(nodeArray)}

\* the breadcrumbs after the data join of updateBreadcrumbs: those whose key
\* is in the new sequence stay, the others go, the missing ones are appended
joinBreadcrumbs(old, t, domain, nodeArray) ==
  LET keys == [k \in 1..Len(nodeArray) |-> key(t, nodeArray[k])]
      slotOf(g) == CHOOSE k \in 1..Len(keys) : keys[k] = g.key
      update == {g \in old : g.key \in Range(keys)}
      entering == {k \in 1..Len(keys) : \A g \in old : g.key # keys[k]}
      used == {g.el : g \in old}
      rank(k) == Cardinality({j \in entering : j <= k})
  IN {[g EXCEPT !.slot = slotOf(g) - 1, !.datum = nodeArray[slotOf(g)]] : g \in update}
     \cup
     {[key |-> keys[k], el |-> freshElement(used, rank(k)),
       text |-> t.name[nodeArray[k]],
       fill |-> color(domain, t.name[nodeArray[k]]),
       points |-> IF k - 1 > 0 THEN 6 ELSE 5,
       slot |-> k - 1, datum |-> nodeArray[k]] : k \in entering}

updateBreadcrumbs(old, t, domain, nodeArray, pct) ==
  [visibility |-> "",
   g |-> joinBreadcrumbs(old.g, t, domain, nodeArray),
   endlabel |-> [slot |-> Len(nodeArray), text |-> pct]]

\* d.ancestors().reverse() with the root shifted off
sequenceArray(t, d) == Tail(Reverse(ancestors(t, d)))

\* d3.selectAll("path").style("opacity", 0.3)
fadeAll(p) == [i \in DOMAIN p |-> [p[i] EXCEPT !.opacity = Faded]]

\* full opacity for the hovered node alone, the last of the sequence
highlightHovered(p, seq) ==
  [i \in DOMAIN p |->
     IF seq # <<>> /\ i = seq[Len(seq)] THEN [p[i] EXCEPT !.opacity = Full] ELSE p[i]]

\* canvas.selectAll("path").filter(... in the sequence).style("opacity", 1)
highlight(p, seq) ==
  [i \in DOMAIN p |-> IF i \in Range(seq) THEN [p[i] EXCEPT !.opacity = Full] ELSE p[i]]

mouseover(d) ==
  /\ d \in DOMAIN path
  /\ path[d].display # "none"
  /\ path[d].onmouseover
  /\ LET pct == percentageString(sum(data, d), totalSize)
         seq == sequenceArray(data, d)
     IN /\ percentage' = [text |-> pct, visibility |-> ""]
        /\ counts' = [text |-> countsString(sum(data, d), totalSize), visibility |-> ""]
        /\ trail' = updateBreadcrumbs(trail, data, uniqueNamesOf(data, nodes), seq, pct)
        /\ path' = highlight(fadeAll(path), seq)
  /\ other' = [other EXCEPT !.path = fadeAll(@)]
  /\ hovered' = d
  /\ last' = [op |-> "mouseover", d |-> d]
  /\ error' = ""
  /\ UNCHANGED <<containerVars, totalSize, data, cutoff, nodes, legend, transition>>
  /\ UNCHANGED <<histogramVars, sankeyVars>>

\* d3.selectAll("path").on("mouseover", null)
detach(p) == [i \in DOMAIN p |-> [p[i] EXCEPT !.onmouseover = FALSE]]

\* d3.selectAll("path").transition().duration(500).style("opacity", 1): a new
\* transition of every path, from its opacity now; one under way is interrupted
startTransition(p) ==
  IF DOMAIN p = {} THEN NoTransition
  ELSE [active |-> TRUE, elapsed |-> 0, from |-> [i \in DOMAIN p |-> p[i].opacity]]

\* the same two calls on the paths of the second container: no handler, and
\* each path in the new transition from its opacity now
fadeFrom(q) == [i \in DOMAIN q |-> [q[i] EXCEPT !.handler = "", !.from = q[i].opacity]]

mouseleave ==
  /\ onmouseleave
  /\ trail' = [trail EXCEPT !.visibility = "hidden"]
  /\ path' = detach(path)
  /\ transition' = startTransition(path)
  /\ other' = [other EXCEPT !.path = fadeFrom(@)]
  /\ percentage' = [percentage EXCEPT !.visibility = "hidden"]
  /\ counts' = [counts EXCEPT !.visibility = "hidden"]
  /\ last' = [op |-> "mouseleave"]
  /\ error' = ""
  /\ UNCHANGED <<containerVars, totalSize, data, cutoff, nodes, legend, hovered>>
  /\ UNCHANGED <<histogramVars, sankeyVars>>

\* a mouseover event on a displayed arc from which mouseleave has taken the
\* handler, .on("mouseover", null): no listener runs, nothing is changed
mouseoverDetached(d) ==
  /\ d \in DOMAIN path
  /\ path[d].display # "none"
  /\ ~path[d].onmouseover
  /\ last' = [op |-> "hover", d |-> d]
  /\ UNCHANGED <<containerVars, totalSize, sunburstVars, other, histogramVars, error,
                 sankeyVars>>

\* d3's default easing, easeCubic, of elapsed / duration, in thousandths
easeCubic(elapsed) ==
  LET cube(n) == (((n * n * 1000) \div (duration * duration)) * n * 4) \div duration
  IN IF 2 * elapsed <= duration THEN cube(elapsed) ELSE 1000 - cube(duration - elapsed)

\* the interpolated opacity of a path that started at from
interpolate(from, elapsed) == from + ((Full - from) * easeCubic(elapsed)) \div 1000

\* the frame for the paths of the second container that are in the transition
tickOther(q, elapsed) ==
  [i \in DOMAIN q |->
     IF q[i].from >= 0 THEN [q[i] EXCEPT !.opacity = interpolate(q[i].from, elapsed)]
     ELSE q[i]]

\* a frame of the transition before its end
transitionTick ==
  /\ transition.active
  /\ transition.elapsed + FrameMs < duration
  /\ transition' = [transition EXCEPT !.elapsed = @ + FrameMs]
  /\ path' = [i \in DOMAIN path |->
                IF i \in DOMAIN transition.from
                THEN [path[i] EXCEPT !.opacity =
                        interpolate(transition.from[i], transition.elapsed + FrameMs)]
                ELSE path[i]]
  /\ other' = [other EXCEPT !.path = tickOther(@, transition.elapsed + FrameMs)]
  /\ last' = [op |-> "tick"]
  /\ UNCHANGED <<containerVars, totalSize, data, cutoff, nodes, legend, trail,
                 percentage, counts, hovered, histogramVars, error, sankeyVars>>

\* full opacity at the end of the transition, no handler attached again
restoreOpacity(p) == [i \in DOMAIN p |-> [p[i] EXCEPT !.opacity = Full]]

\* .on("end", function() {d3.select(this).on("mouseover", mouseover);})
reattach(p) == [i \in DOMAIN p |-> [p[i] EXCEPT !.opacity = Full, !.onmouseover = TRUE]]

\* the end event for the paths of the second container that are in the
\* transition: each gets the mouseover of the call that drew the first chart
reattachOther(q) ==
  [i \in DOMAIN q |->
     IF q[i].from >= 0
     THEN [q[i] EXCEPT !.opacity = Full, !.handler = "first", !.from = -1]
     ELSE q[i]]

\* the last frame of the transition: full opacity, then the end event
transitionEnd ==
  /\ transition.active
  /\ transition.elapsed + FrameMs >= duration
  /\ transition' = NoTransition
  /\ path' = IF DOMAIN transition.from = DOMAIN path THEN reattach(path) ELSE path
  /\ other' = [other EXCEPT !.path = reattachOther(@)]
  /\ last' = [op |-> "end"]
  /\ UNCHANGED <<containerVars, totalSize, data, cutoff, nodes, legend, trail,
                 percentage, counts, hovered, histogramVars, error, sankeyVars>>

\* ------------------------------------------------- the second container
\* The page's script draws the second container's chart once the first
\* container holds its sunburst chart, so #trail, #percentage and #counts of
\* the first chart are the first of their id in the document. Of the second
\* chart the path elements are kept, each with the handler bound to its
\* mouseover ("": none, "own": of the call that drew it, "first": of the call
\* that drew the first chart) and the opacity it had when the transition it is
\* in began (-1: in none). The pointer's leaving the second container is
\* outside the model.

\* the paths plotSunburst draws into the second container
drawOtherPaths(t, ns) ==
  [i \in Range(ns) |->
     [display |-> drawPaths(t, ns)[i].display, opacity |-> drawPaths(t, ns)[i].opacity,
      handler |-> "own", from |-> -1]]

\* the transition once the second container's paths are removed from the
\* document: it goes on for the paths of the first container that are in it
stayTransition(tr) == IF tr.from = <<>> THEN NoTransition ELSE tr

\* plotSunburst(second container, t, {cutoff: c})
plotSunburstOther(t, c) ==
  LET ns == filter(t, c) IN
  /\ ns # <<>>
  /\ other' = [kind |-> "sunburst", data |-> t, nodes |-> ns,
               path |-> drawOtherPaths(t, ns)]
  /\ totalSize' = sum(t, ns[1])
  /\ transition' = stayTransition(transition)
  /\ error' = ""
  /\ last' = [op |-> "plotSunburstOther"]
  /\ UNCHANGED <<containerVars, data, cutoff, nodes, path, legend, trail, percentage,
                 counts, hovered, histogramVars, sankeyVars>>

\* the path elements of a histogram: the domain paths of its two axes, drawn
\* by xAxis and yAxis, each with the datum null
axisPaths ==
  [i \in 1..2 |-> [display |-> "", opacity |-> Full, handler |-> "", from |-> -1]]

\* plotHistogram(second container, bins, config), as far as its paths go
plotHistogramOther ==
  /\ other' = [kind |-> "histogram", data |-> NoTree, nodes |-> <<>>, path |-> axisPaths]
  /\ transition' = stayTransition(transition)
  /\ error' = ""
  /\ last' = [op |-> "plotHistogramOther"]
  /\ UNCHANGED <<containerVars, totalSize, data, cutoff, nodes, path, legend, trail,
                 percentage, counts, hovered, histogramVars, sankeyVars>>

\* a mouseover event on path d of the second container, for the sunburst
\* mouseover bound to it. On an axis path the datum is null and d.value
\* throws. On an arc the labels and the trail selected by id are those of the
\* first chart, the total is the global totalSize, every path of the document
\* is faded, and the handler's own canvas gets the chain back: the canvas of
\* the first chart holds no node of the second chart's chain.
mouseoverOther(d) ==
  /\ d \in DOMAIN other.path
  /\ other.path[d].display # "none"
  /\ other.path[d].handler # ""
  /\ IF other.kind = "histogram"
     THEN /\ error' = "TypeError"
          /\ UNCHANGED <<path, other, percentage, counts, trail, hovered>>
     ELSE LET own == other.path[d].handler = "own"
              pct == percentageString(sum(other.data, d), totalSize)
              seq == sequenceArray(other.data, d)
              domain == IF own THEN uniqueNamesOf(other.data, other.nodes)
                        ELSE uniqueNamesOf(data, nodes)
          IN /\ percentage' = [text |-> pct, visibility |-> ""]
             /\ counts' = [text |-> countsString(sum(other.data, d), totalSize),
                           visibility |-> ""]
             /\ trail' = updateBreadcrumbs(trail, other.data, domain, seq, pct)
             /\ path' = fadeAll(path)
             /\ other' = [other EXCEPT !.path = IF own THEN highlight(fadeAll(@), seq)
                                                ELSE fadeAll(@)]
             /\ hovered' = 0
             /\ error' = ""
  /\ last' = [op |-> "mouseoverOther", d |-> d]
  /\ UNCHANGED <<containerVars, totalSize, data, cutoff, nodes, legend, transition,
                 histogramVars, sankeyVars>>

\* ------------------------------------------------------------ plotHistogram
\* JavaScript values, as far as the click guard needs them
JsUndefined == [type |-> "undefined"]
JsNull == [type |-> "null"]
JsString(str) == [type |-> "string", value |-> str]

\* typeof: a string, "object" for null
typeof(v) == JsString(IF v.type = "null" THEN "object" ELSE v.type)

\* a !== b
strictNotEqual(a, b) == a # b

\* the global onclick (window.onclick) the guard's bare identifier reads
windowOnclick == JsNull

\* if(typeof(onclick) !== undefined)
clickGuard == strictNotEqual(typeof(windowOnclick), JsUndefined)

\* innerWidth = width - config.margin.left - config.margin.right
histogramInnerWidth(width) == width - marginLeft - marginRight

\* a bar width cut down to a whole number
barWidthFloor(innerWidth, n, spacing) == (innerWidth - spacing * n) \div n

\* Math.round(innerWidth / data.length - config.bar_spacing)
barWidth(innerWidth, n, spacing) == RoundHalfUp(innerWidth - spacing * n, n)

\* the bars drawn for the bins: bar i at i * step, step = innerWidth / n
drawBars(bins, innerWidth, spacing) ==
  [k \in 1..Len(bins) |->
     [x |-> Frac((k - 1) * innerWidth, Len(bins)),
      width |-> barWidth(innerWidth, Len(bins), spacing),
      text |-> barWidth(innerWidth, Len(bins), spacing) > barTextMinWidth,
      value |-> bins[k]]]

plotHistogram(bins, spacing, callback, width) ==
  /\ svgs' = replaceSvg(svgs, "histogram")
  /\ bars' = drawBars(bins, histogramInnerWidth(width), spacing)
  /\ barsOnClick' = clickGuard
  /\ onclick' = callback
  /\ called' = <<>>
  /\ error' = ""
  /\ NoSunburst /\ NoSankey
  /\ last' = [op |-> "plotHistogram", svg |-> newSvg(svgs)]
  /\ UNCHANGED <<page, onmouseleave, totalSize, other>>

\* a click on bar i (counted from 0): function (d,i) {config.onclick(i,d);}
click(i) ==
  /\ i + 1 \in DOMAIN bars
  /\ IF barsOnClick
     THEN IF onclick = "function"
          THEN called' = <<i, bars[i + 1].value>> /\ error' = ""
          ELSE called' = called /\ error' = "TypeError"
     ELSE called' = called /\ error' = ""
  /\ last' = [op |-> "click", i |-> i]
  /\ UNCHANGED <<containerVars, totalSize, sunburstVars, other, bars, barsOnClick, onclick,
                 sankeyVars>>

\* --------------------------------------------------------------- plotSankey
\* What sankey(data) leaves in data: every node's box and the links leaving
\* and reaching it in the order the layout gave them, every link's ends and
\* width. The links' y0 and y1 follow from these (computeLinkBreadths).
Box(x0, y0, x1, y1, out, in) ==
  [x0 |-> x0, y0 |-> y0, x1 |-> x1, y1 |-> y1, startX |-> 0, startY |-> 0,
   sourceLinks |-> out, targetLinks |-> in]

Link(source, target, width) == [source |-> source, target |-> target, width |-> width]

Layouts ==
  { \* 1 -> 2 -> 3, 1 -> 3
    [nodes |-> << Box(0, 0, 15, 6, <<1, 3>>, <<>>),
                  Box(30, 0, 45, 2, <<2>>, <<1>>),
                  Box(60, 0, 75, 6, <<>>, <<2, 3>>) >>,
     links |-> << Link(1, 2, 2), Link(2, 3, 2), Link(1, 3, 4) >>] }

\* the sum of the widths of the first k links of the sequence ls
RECURSIVE widthBefore(_, _, _)
widthBefore(g, ls, k) ==
  IF k = 0 THEN 0 ELSE g.links[ls[k]].width + widthBefore(g, ls, k - 1)

\* sankey.update(data), computeLinkBreadths: every link's y0 from its source's
\* y0 and the links before it there, its y1 likewise from its target
update(g) ==
  [g EXCEPT !.links =
     [l \in DOMAIN g.links |->
        LET lk == g.links[l]
            out == g.nodes[lk.source].sourceLinks
            in == g.nodes[lk.target].targetLinks
        IN [source |-> lk.source, target |-> lk.target, width |-> lk.width,
            y0 |-> g.nodes[lk.source].y0 + widthBefore(g, out, IndexOf(out, l))
                   + lk.width \div 2,
            y1 |-> g.nodes[lk.target].y0 + widthBefore(g, in, IndexOf(in, l))
                   + lk.width \div 2]]]

\* d3.sankeyLinkHorizontal(): from the source's right side to the target's left
sankeyLinkHorizontal(g, l) ==
  [x0 |-> g.nodes[g.links[l].source].x1, y0 |-> g.links[l].y0,
   x1 |-> g.nodes[g.links[l].target].x0, y1 |-> g.links[l].y1]

\* link.attr("d", d3.sankeyLinkHorizontal())
drawLinks(g) == [l \in DOMAIN g.links |-> sankeyLinkHorizontal(g, l)]

plotSankey(layout) ==
  /\ svgs' = replaceSvg(svgs, "sankey")
  /\ graph' = update(layout)
  /\ linkPath' = drawLinks(update(layout))
  /\ nodeTransform' = [n \in DOMAIN layout.nodes |-> [x |-> 0, y |-> 0]]
  /\ nodeOrder' = [k \in 1..Len(layout.nodes) |-> k]
  /\ drag' = NoDrag
  /\ dragSteps' = 0
  /\ error' = ""
  /\ NoSunburst /\ NoHistogram
  /\ last' = [op |-> "plotSankey", svg |-> newSvg(svgs)]
  /\ UNCHANGED <<page, onmouseleave, totalSize, other>>

\* this.parentNode.appendChild(this): the node's group becomes the last one
raise(order, n) == Append(SelectSeqBy(order, Range(order) \ {n}), n)

\* the drag behaviour's start event on node n with the pointer at (x, y)
dragStart(n, x, y) ==
  /\ n \in DOMAIN graph.nodes
  /\ drag.node = 0
  /\ dragSteps < MaxDragEvents
  /\ dragSteps' = dragSteps + 1
  /\ graph' = [graph EXCEPT !.nodes[n].startX = x, !.nodes[n].startY = y]
  /\ nodeOrder' = raise(nodeOrder, n)
  /\ drag' = [node |-> n, x |-> x, y |-> y]
  /\ last' = [op |-> "dragstart", n |-> n]
  /\ error' = ""
  /\ UNCHANGED <<containerVars, totalSize, sunburstVars, other, histogramVars, linkPath,
                 nodeTransform>>

\* a move of the box along y alone
moveBoxY(d, dx, dy) == [d EXCEPT !.y0 = @ + dy, !.y1 = @ + dy]

\* d.x0 += d3.event.dx; d.x1 += d3.event.dx; d.y0 += ...; d.y1 += ...
moveBox(d, dx, dy) ==
  [d EXCEPT !.x0 = @ + dx, !.x1 = @ + dx, !.y0 = @ + dy, !.y1 = @ + dy]

\* the drag event as the pointer moves to (x, y)
dragged(x, y) ==
  LET n == drag.node
      dx == x - drag.x
      dy == y - drag.y
      moved == [graph EXCEPT !.nodes[n] = moveBox(@, dx, dy)]
  IN /\ n # 0
     /\ dragSteps < MaxDragEvents
     /\ <<x, y>> # <<drag.x, drag.y>>
     /\ nodeTransform' = [nodeTransform EXCEPT ![n] =
                            [x |-> x - graph.nodes[n].startX,
                             y |-> y - graph.nodes[n].startY]]
     /\ graph' = update(moved)
     /\ linkPath' = drawLinks(update(moved))
     /\ drag' = [drag EXCEPT !.x = x, !.y = y]
     /\ dragSteps' = dragSteps + 1
     /\ last' = [op |-> "drag", n |-> n, dx |-> dx, dy |-> dy]
     /\ error' = ""
     /\ UNCHANGED <<containerVars, totalSize, sunburstVars, other, histogramVars,
                     nodeOrder>>

\* the end of the gesture: the code listens to no end event
dragEnd ==
  /\ drag.node # 0
  /\ drag' = NoDrag
  /\ last' = [op |-> "dragend"]
  /\ error' = ""
  /\ UNCHANGED <<containerVars, totalSize, sunburstVars, other, histogramVars, graph,
                 linkPath,
                 nodeTransform, nodeOrder, dragSteps>>

\* ------------------------------------------------------------- the pages
\* A page draws the charts it has data for, each as often as it likes.
BinValues == {3, 17}
Bins == UNION {[1..n -> BinValues] : n \in 0..MaxBins}
Spacings == {1, 20}
Widths == {80, 81, 370}
\* where the pointer can be during a drag gesture
Pointers == {<<0, 0>>, <<1, 0>>, <<0, 1>>}

NoPage ==
  [charts |-> {}, tree |-> NoTree, cutoff |-> DefaultCutoff, bins |-> <<>>,
   bar_spacing |-> 1, onclick |-> "undefined", width |-> 80, layout |-> NoGraph,
   second |-> "", tree2 |-> NoTree]

SunburstPages ==
  {[NoPage EXCEPT !.charts = {"sunburst"}, !.tree = t, !.cutoff = c] :
     t \in Trees, c \in Cutoffs}

HistogramPages ==
  {[NoPage EXCEPT !.charts = {"histogram"}, !.bins = b, !.bar_spacing = s,
                  !.onclick = f, !.width = w] :
     b \in Bins, s \in Spacings, f \in {"function", "undefined"}, w \in Widths}

SankeyPages == {[NoPage EXCEPT !.charts = {"sankey"}, !.layout = g] : g \in Layouts}

\* a page that draws all three charts into one container, the histogram with
\* the spacing of examples.html
MixedPages ==
  {[charts |-> {"histogram", "sunburst", "sankey"}, tree |-> ExampleTree,
    cutoff |-> DefaultCutoff, bins |-> <<3, 17>>, bar_spacing |-> 20,
    onclick |-> "undefined", width |-> 370, layout |-> g,
    second |-> "", tree2 |-> NoTree] : g \in Layouts}

\* the tree of the first chart of a page with two: root{A:3, B:5}
FirstTree ==
  [parent |-> <<0, 1, 1>>, name |-> <<"root", "A", "B">>, size |-> <<0, 3, 5>>]

\* the trees of a second sunburst chart: names of the first tree, so that the
\* colour scale of either call knows them, and another total
OtherTrees ==
  {[parent |-> <<0, 1>>, name |-> <<"root", "A">>, size |-> <<0, 6>>],
   [parent |-> <<0, 1, 2>>, name |-> <<"root", "B", "A">>, size |-> <<0, 1, 1>>]}

\* a page with two containers: a sunburst chart in the first, a histogram or
\* another sunburst chart in the second
TwoChartPages ==
  {[NoPage EXCEPT !.charts = {"sunburst"}, !.tree = FirstTree, !.second = "histogram"]}
  \cup
  {[NoPage EXCEPT !.charts = {"sunburst"}, !.tree = FirstTree, !.second = "sunburst",
                  !.tree2 = t] : t \in OtherTrees}

\* the pages with one container
Pages == SunburstPages \cup HistogramPages \cup SankeyPages \cup MixedPages

\* the page is loaded: the containers are empty, nothing is drawn
Loaded ==
  /\ svgs = <<>> /\ onmouseleave = FALSE
  /\ totalSize = 0
  /\ data = NoTree /\ cutoff = DefaultCutoff /\ nodes = <<>> /\ path = <<>>
  /\ legend = <<>> /\ trail = NoTrail /\ percentage = NoText /\ counts = NoText
  /\ transition = NoTransition /\ hovered = 0
  /\ other = NoOther
  /\ bars = <<>> /\ barsOnClick = FALSE /\ onclick = "undefined" /\ called = <<>>
  /\ error = ""
  /\ graph = NoGraph /\ linkPath = <<>> /\ nodeTransform = <<>>
  /\ nodeOrder = <<>> /\ drag = NoDrag /\ dragSteps = 0
  /\ last = [op |-> "load"]

Init == page \in Pages /\ Loaded

InitTwoCharts == page \in TwoChartPages /\ Loaded

NextSunburst ==
  \/ "sunburst" \in page.charts /\ plotSunburst(page.tree, page.cutoff)
  \/ \E d \in 1..MaxNodes : mouseover(d)
  \/ mouseleave
  \/ transitionTick
  \/ transitionEnd

NextHistogram ==
  \/ "histogram" \in page.charts
       /\ plotHistogram(page.bins, page.bar_spacing, page.onclick, page.width)
  \/ \E i \in 0..(MaxBins - 1) : click(i)

NextSankey ==
  \/ "sankey" \in page.charts /\ plotSankey(page.layout)
  \/ \E n \in 1..3, p \in Pointers : dragStart(n, p[1], p[2])
  \/ \E p \in Pointers : dragged(p[1], p[2])
  \/ dragEnd

\* the second container's chart is drawn after the first container's
NextOther ==
  \/ /\ page.second = "sunburst" /\ data # NoTree
     /\ plotSunburstOther(page.tree2, page.cutoff)
  \/ page.second = "histogram" /\ data # NoTree /\ plotHistogramOther
  \/ \E d \in 1..MaxNodes : mouseoverOther(d)

\* the events of a sunburst chart, those that find no handler too
NextHover ==
  \/ NextSunburst
  \/ \E d \in 1..MaxNodes : mouseoverDetached(d)

Next == NextSunburst \/ NextHistogram \/ NextSankey

\* every chart of the page
Spec == Init /\ [][Next]_vars

\* the page's sunburst chart alone
SpecSunburst == Init /\ [][NextSunburst]_vars

\* the fade's timer fires, and the pointer does not leave the container again
\* and again before a fade has ended
FairSunburst == SpecSunburst /\ WF_vars(transitionTick) /\ SF_vars(transitionEnd)

\* the page's sunburst chart, with the hovers that arrive during a fade
SpecHover == Init /\ [][NextHover]_vars

\* the charts of a page's two containers
SpecTwoCharts == InitTwoCharts /\ [][NextSunburst \/ NextOther]_vars

\* the page's histogram alone
SpecHistogram == Init /\ [][NextHistogram]_vars

\* the page's sankey diagram alone
SpecSankey == Init /\ [][NextSankey]_vars

\* ------------------------------------------------------------------ claims
\* What the claims speak of, said without the program's own operators.
Shown(kind) == svgs # <<>> /\ svgs[Len(svgs)].kind = kind

RECURSIVE IsAncestorOrSelf(_, _, _)
IsAncestorOrSelf(t, a, x) ==
  x = a \/ (t.parent[x] # 0 /\ IsAncestorOrSelf(t, a, t.parent[x]))

\* the nodes from the root's child down to x
Chain(t, x) == {a \in TreeNodes(t) : t.parent[a] # 0 /\ IsAncestorOrSelf(t, a, x)}

\* the number of nodes strictly above a
Rank(t, a) == Cardinality({b \in TreeNodes(t) : b # a /\ IsAncestorOrSelf(t, b, a)})

\* a node's own size plus the sizes of all its descendants
SubtreeSize(t, a) == SumOver(t.size, {x \in TreeNodes(t) : IsAncestorOrSelf(t, a, x)})

TreeSize(t) == SumOver(t.size, TreeNodes(t))

\* C1: after a processed hover on arc X, the arcs on the chain from the
\* root's child down to X are at full opacity and every other arc of the
\* chart is at the faded opacity.
C1_HoverOpacity ==
  last.op = "mouseover" =>
    \A i \in DOMAIN path :
      path[i].opacity = IF i \in Chain(data, last.d) THEN Full ELSE Faded

\* a hover below the first ring that left a displayed arc faded
C1_Witness ==
  /\ last.op = "mouseover"
  /\ Rank(data, last.d) >= 2
  /\ \E i \in DOMAIN path : path[i].display = "" /\ path[i].opacity = Faded

AllRestored ==
  /\ ~transition.active
  /\ \A i \in DOMAIN path : path[i].opacity = Full /\ path[i].onmouseover

\* C2: a leave hides the trail and the labels at once and detaches the hover
\* handlers; with no further event the fade ends, every arc is back at full
\* opacity and every arc has its hover handler again.
C2_LeaveRestores ==
  /\ [][last'.op = "mouseleave" =>
          /\ trail'.visibility = "hidden"
          /\ percentage'.visibility = "hidden"
          /\ counts'.visibility = "hidden"
          /\ \A i \in DOMAIN path' : ~path'[i].onmouseover]_vars
  /\ (transition.active ~> AllRestored)

\* the fade of a focused chart has ended and a hover was processed after it
C2_Witness ==
  /\ last.op = "end" /\ hovered # 0 /\ AllRestored
  /\ trail.visibility = "hidden" /\ percentage.visibility = "hidden"

\* the trail shows the chain of node x, in order
TrailShows(t, x) ==
  /\ Cardinality(trail.g) = Cardinality(Chain(t, x))
  /\ \A a \in Chain(t, x) :
       \E g \in trail.g : g.slot = Rank(t, a) - 1 /\ g.text = t.name[a]

\* C3: the trail holds one segment per node of the last hovered node's chain,
\* in root-to-node order, labelled with the node's name; a hover keeps the
\* segments whose (name, depth) is on the new chain and removes the others.
C3_Breadcrumbs ==
  /\ [](hovered # 0 => TrailShows(data, hovered))
  /\ [][last'.op = "mouseover" =>
          \A g \in trail.g :
            IF \E a \in Chain(data, last'.d) :
                 data.name[a] = g.text /\ Rank(data, a) = g.slot + 1
            THEN \E h \in trail'.g : h.el = g.el /\ h.text = g.text /\ h.slot = g.slot
            ELSE \A h \in trail'.g : h.el # g.el]_vars

\* a hover that kept a segment, dropped one and made one
C3_Witness ==
  /\ last.op = "mouseover"
  /\ Cardinality(trail.g) >= 2
  /\ \E g \in trail.g : g.el = 0
  /\ \E g \in trail.g : g.el >= Cardinality(trail.g)

\* 10^e <= n / d < 10^(e + 1)
InDecade(n, d, e) ==
  IF e >= 0 THEN d * Pow10(e) <= n /\ n < d * Pow10(e + 1)
  ELSE n * Pow10(-e) >= d /\ n * Pow10(-e - 1) < d

\* n / d >= 0.01 written with 3 significant digits: the nearest number of
\* three digits, the upper one of two equally near
ThreeDigits(n, d) ==
  LET e == CHOOSE k \in -2..2 : InDecade(n, d, k)
      m == CHOOSE k \in 100..1000 :
             2 * k * d - d <= 2 * n * Pow10(2 - e) /\ 2 * n * Pow10(2 - e) < 2 * k * d + d
  IN PrecisionString(IF m = 1000 THEN [m |-> 100, e |-> e + 1] ELSE [m |-> m, e |-> e])

\* 100 * v / total < 0.1
BelowTenthPercent(v, total) == 1000 * v < total

\* 100 * v / total < 0.09995: three significant digits show less than 0.1
ShownBelowTenthPercent(v, total) ==
  IF 1000 * v >= total THEN FALSE ELSE 2000000 * v < 1999 * total

HoverOn(x) == last.op = "mouseover" /\ last.d = x

\* C4 as stated: the percentage of a hover is 100 * value(X) / value(root),
\* "<0.1%" when below 0.1 and else 3 significant digits and "%".
C4_PercentageAsStated ==
  \A x \in DOMAIN path :
    HoverOn(x) =>
      percentage.text =
        IF BelowTenthPercent(SubtreeSize(data, x), TreeSize(data)) THEN "<0.1%"
        ELSE ThreeDigits(100 * SubtreeSize(data, x), TreeSize(data)) \o "%"

\* C4: the percentage of a hover is 100 * value(X) / value(root) with 3
\* significant digits and "%", and "< 0.1%" when these digits show less than
\* 0.1; hovering C in root{A:3, B:5{C:2}} shows "20.0%" of the total 10.
C4_Percentage ==
  /\ \A x \in DOMAIN path :
       HoverOn(x) =>
         percentage.text =
           IF ShownBelowTenthPercent(SubtreeSize(data, x), TreeSize(data)) THEN "< 0.1%"
           ELSE ThreeDigits(100 * SubtreeSize(data, x), TreeSize(data)) \o "%"
  /\ (data = ExampleTree /\ HoverOn(4)) => (totalSize = 10 /\ percentage.text = "20.0%")

\* a hover on a node below 0.1 percent that three digits show as 0.100
C4_Witness ==
  /\ last.op = "mouseover"
  /\ BelowTenthPercent(SubtreeSize(data, last.d), TreeSize(data))
  /\ percentage.text = "0.100%" /\ percentage.visibility = ""

\* C9 as stated: a node of the tree is rendered exactly if its share of the
\* full circle, value(node) / value(root), is at least config.cutoff.
C9_CutoffIsShare ==
  Shown("sunburst") =>
    \A i \in TreeNodes(data) :
      (i \in Range(nodes)) <=>
        (SubtreeSize(data, i) * cutoff.den >= cutoff.num * TreeSize(data))

\* the names of the rendered nodes below the root, each once, in the order
\* of their first occurrence
NonRootNames ==
  LET below == SelectSeqBy(nodes, {i \in Range(nodes) : data.parent[i] # 0})
      first == {k \in 1..Len(below) :
                  \A j \in 1..(k - 1) : data.name[below[j]] # data.name[below[k]]}
  IN [k \in 1..Cardinality(first) |->
        data.name[below[CHOOSE f \in first : Cardinality({j \in first : j < f}) = k - 1]]]

\* C10 as stated: the legend holds one entry per distinct name of a rendered
\* non-root node, in first-occurrence order, filled like the arcs of that name.
C10_Legend ==
  Shown("sunburst") =>
    /\ [k \in 1..Len(legend) |-> legend[k].text] = NonRootNames
    /\ \A k \in 1..Len(legend) : \A i \in Range(nodes) :
         data.name[i] = legend[k].text => path[i].fill = legend[k].fill

BoxOf(d) == <<d.x0, d.y0, d.x1, d.y1>>

KindOf(op) ==
  IF op = "plotHistogram" THEN "histogram"
  ELSE IF op = "plotSunburst" THEN "sunburst" ELSE "sankey"

RenderOps == {"plotHistogram", "plotSunburst", "plotSankey"}

\* C6: after any sequence of render calls the container holds exactly one
\* svg, the one the last call built, and nothing an earlier call drew.
C6_OneChart ==
  /\ [](svgs # <<>> =>
          /\ Len(svgs) = 1
          /\ ~Shown("histogram") => bars = <<>>
          /\ ~Shown("sunburst") => path = <<>> /\ legend = <<>> /\ trail.g = {}
          /\ ~Shown("sankey") => linkPath = <<>> /\ nodeOrder = <<>>)
  /\ [][/\ last'.op \in RenderOps =>
             /\ svgs' = <<[kind |-> KindOf(last'.op), el |-> last'.svg]>>
             /\ \A k \in 1..Len(svgs) : svgs[k].el # last'.svg
        /\ svgs' # svgs => last'.op \in RenderOps]_vars

\* a chart of one kind has replaced a chart of another kind
C6_Witness ==
  /\ last.op = "plotHistogram" /\ Len(svgs) = 1 /\ svgs[1].el = 1
  /\ totalSize # 0 /\ bars # <<>>

InnerWidth == page.width - marginLeft - marginRight

\* C7 as stated: n >= 1 bins give n bars, bar i at i * innerWidth / n, each
\* of width innerWidth / n minus the bar spacing.
C7_BarsAsStated ==
  (Shown("histogram") /\ Len(page.bins) >= 1) =>
    LET n == Len(page.bins) IN
    /\ Len(bars) = n
    /\ \A i \in 0..(n - 1) :
         /\ bars[i + 1].x.num * n = i * InnerWidth * bars[i + 1].x.den
         /\ bars[i + 1].width * n = InnerWidth - page.bar_spacing * n

\* C7: n >= 1 bins give n bars, bar i at i * innerWidth / n, each of width
\* innerWidth / n minus the bar spacing rounded to the nearest integer, a
\* half rounded up.
C7_Bars ==
  (Shown("histogram") /\ Len(page.bins) >= 1) =>
    LET n == Len(page.bins) IN
    /\ Len(bars) = n
    /\ \A i \in 0..(n - 1) :
         /\ bars[i + 1].x.num * n = i * InnerWidth * bars[i + 1].x.den
         /\ \A j \in 0..(i - 1) : FracGreater(bars[i + 1].x, bars[j + 1].x)
         /\ 2 * bars[i + 1].width * n - n <= 2 * (InnerWidth - page.bar_spacing * n)
         /\ 2 * (InnerWidth - page.bar_spacing * n) < 2 * bars[i + 1].width * n + n

\* three bars whose width is not a whole number before rounding
C7_Witness ==
  /\ Shown("histogram") /\ Len(bars) = 3 /\ InnerWidth % 3 # 0
  /\ bars[3].x.den = 3

\* C8 as stated: a click handler is bound to the bars only when a callback
\* was given; with one, a click on bar i calls it with (i, value of bin i),
\* with none a click calls nothing and raises no error.
C8_ClickOnlyWithCallback ==
  Shown("histogram") =>
    /\ bars # <<>> => (barsOnClick <=> (onclick = "function"))
    /\ last.op = "click" =>
         IF onclick = "function"
         THEN called = <<last.i, page.bins[last.i + 1]>> /\ error = ""
         ELSE called = <<>> /\ error = ""

\* the chart is focused on arc x: the arcs of x's chain at full opacity, the
\* others faded, the trail of x and the labels shown
Focused(x) ==
  /\ \A i \in DOMAIN path :
       path[i].opacity = IF i \in Chain(data, x) THEN Full ELSE Faded
  /\ trail.visibility = "" /\ TrailShows(data, x)
  /\ percentage.visibility = "" /\ counts.visibility = ""

\* C11 as stated: a hover on arc X that arrives after a leave and before the
\* fade has ended is applied at once, and the chart is focused on X.
C11_HoverDuringFade ==
  \A x \in DOMAIN path : (last.op = "hover" /\ last.d = x) => Focused(x)

\* where the rectangle of node n is displayed: where it was drawn, moved by
\* the translate of its group
DisplayedAt(n) ==
  <<page.layout.nodes[n].x0 + nodeTransform[n].x,
    page.layout.nodes[n].y0 + nodeTransform[n].y>>

\* C12 as stated: after any drag gestures every node's rectangle is displayed
\* at the node's bounding box (x0, y0), and every link ends on the rectangles
\* of its two nodes.
C12_DisplayedAtBox ==
  Shown("sankey") =>
    /\ \A n \in DOMAIN graph.nodes :
         DisplayedAt(n) = <<graph.nodes[n].x0, graph.nodes[n].y0>>
    /\ \A l \in DOMAIN graph.links :
         LET w == page.layout.nodes[1].x1 - page.layout.nodes[1].x0 IN
         /\ linkPath[l].x0 = DisplayedAt(graph.links[l].source)[1] + w
         /\ linkPath[l].x1 = DisplayedAt(graph.links[l].target)[1]

FirstChartEvents == {"mouseover", "mouseleave", "tick", "end"}

\* C13 as stated: a hover or a leave on the first container's sunburst chart,
\* and the fade a leave starts, change neither the opacity nor the mouseover
\* binding of a path of the chart in the second container.
C13_OtherChartUntouched ==
  [][last'.op \in FirstChartEvents =>
       \A i \in DOMAIN other.path :
         /\ other'.path[i].opacity = other.path[i].opacity
         /\ other'.path[i].handler = other.path[i].handler]_vars

\* the counts of a value and a total below 1000, which take no comma
PlainCounts(v, total) == ToString(v) \o "/" \o ToString(total)

\* the percentage and the counts of node x of tree t, of t's own total
OwnShare(t, x) ==
  /\ percentage.text =
       IF ShownBelowTenthPercent(SubtreeSize(t, x), TreeSize(t)) THEN "< 0.1%"
       ELSE ThreeDigits(100 * SubtreeSize(t, x), TreeSize(t)) \o "%"
  /\ counts.text = PlainCounts(SubtreeSize(t, x), TreeSize(t))

\* C14 as stated: with sunburst charts of different trees in two containers,
\* a hover on an arc of either chart reports the percentage and the counts of
\* the total of the arc's own tree, whichever chart was drawn last.
C14_OwnTotal ==
  other.kind = "sunburst" =>
    /\ \A x \in DOMAIN path : HoverOn(x) => OwnShare(data, x)
    /\ \A x \in DOMAIN other.path :
         (last.op = "mouseoverOther" /\ last.d = x) => OwnShare(other.data, x)
====
